---- MODULE Spec2Model ----
(***************************************************************************)
(* Model of tools/mcp_client.py: the Tools plugin object (known-tools      *)
(* snapshot, schema cache), its three public operations mcp_list_tools,    *)
(* mcp_get_tool_schema and mcp_call_tool, the per-operation MCP session    *)
(* opened by _with_session, the sync-to-async bridge run_async_blocking    *)
(* and the JSON repair pipeline fix_json.                                  *)
(***************************************************************************)
EXTENDS Integers, Sequences, FiniteSets, Bags, TLC

\* ------------------------------------------------------------------------
\* Bounds of the model
\* ------------------------------------------------------------------------

\* coroutines of public operations that may be in flight at the same time
MaxTasks == 2

\* number of tool records in one discovery (list_tools) response
MaxTools == 1

\* ------------------------------------------------------------------------
\* Value domains
\* ------------------------------------------------------------------------

Names == {"a", "b"}

Descs == {"d"}

Params == {"p1", "p2"}

\* structured argument values a text can denote
Values == {"v1", "v2"}

CallResults == {"r1"}

NoTool == "-"

\* no structured value
NoArgs == [json |-> "-"]

NoBody == [none |-> TRUE]

NoReq == [method |-> "none", name |-> NoTool, arguments |-> NoArgs]

\* the coroutine has not produced its result yet
NoResult == [kind |-> "none", value |-> NoBody]

\* an exception raised inside the coroutine of an operation
Exc == [kind |-> "exc", value |-> NoBody]

\* ------------------------------------------------------------------------
\* Argument texts.  A text is described by the structured value it is meant
\* to denote and by the syntax defects it carries.
\* ------------------------------------------------------------------------

\* defects the JSON5 grammar tolerates
RelaxedDefects == {"trailing_comma", "single_quotes", "unquoted_key"}

\* defects only the heuristic repair removes
HeuristicDefects == {"unclosed_bracket", "missing_quote"}

\* defects nothing removes (no JSON structure at all, e.g. the empty text)
FatalDefects == {"no_structure"}

Defects == RelaxedDefects \cup HeuristicDefects \cup FatalDefects

JsonTexts == [val : Values, defects : SUBSET Defects]

ParseFail == [ok |-> FALSE, value |-> NoArgs]

\* json.loads: the strict grammar accepts only a text without defects
json_loads(data) ==
  IF data.defects = {} THEN [ok |-> TRUE, value |-> [json |-> data.val]]
  ELSE ParseFail

\* json5.loads: the relaxed grammar also accepts the JSON5 extensions
json5_loads(data) ==
  IF data.defects \subseteq RelaxedDefects
  THEN [ok |-> TRUE, value |-> [json |-> data.val]]
  ELSE ParseFail

\* repair_json: text to text, removes every defect it can
repair_json(data) ==
  [val |-> data.val, defects |-> data.defects \cap FatalDefects]

\* the three strategies of fix_json, in the order the code tries them
Strategies == <<"strict", "relaxed", "repair">>

\* one strategy applied to a text
Attempt(strategy, data) ==
  CASE strategy = "strict" -> json_loads(data)
    [] strategy = "relaxed" -> json5_loads(data)
    [] strategy = "repair" -> json_loads(repair_json(data))

\* mutant: the relaxed attempt is made after the heuristic repair
fix_json_repair_first(data) ==
  IF json_loads(data).ok
  THEN [ok |-> TRUE, value |-> json_loads(data).value, trace |-> <<"strict">>]
  ELSE IF json_loads(repair_json(data)).ok
  THEN [ok |-> TRUE, value |-> json_loads(repair_json(data)).value,
        trace |-> <<"strict", "repair">>]
  ELSE IF json5_loads(data).ok
  THEN [ok |-> TRUE, value |-> json5_loads(data).value,
        trace |-> <<"strict", "repair", "relaxed">>]
  ELSE [ok |-> FALSE, value |-> NoArgs, trace |-> <<"strict", "repair", "relaxed">>]

\* mutant: the strict branch parses the default text "{}" instead of data
fix_json_strict_default(data) ==
  IF json_loads(data).ok
  THEN [ok |-> TRUE, value |-> NoArgs, trace |-> <<"strict">>]
  ELSE IF json5_loads(data).ok
  THEN [ok |-> TRUE, value |-> json5_loads(data).value,
        trace |-> <<"strict", "relaxed">>]
  ELSE IF json_loads(repair_json(data)).ok
  THEN [ok |-> TRUE, value |-> json_loads(repair_json(data)).value,
        trace |-> <<"strict", "relaxed", "repair">>]
  ELSE [ok |-> FALSE, value |-> NoArgs, trace |-> <<"strict", "relaxed", "repair">>]

\* mutant: the last except branch returns empty arguments instead of raising
fix_json_swallows(data) ==
  IF json_loads(data).ok
  THEN [ok |-> TRUE, value |-> json_loads(data).value, trace |-> <<"strict">>]
  ELSE IF json5_loads(data).ok
  THEN [ok |-> TRUE, value |-> json5_loads(data).value,
        trace |-> <<"strict", "relaxed">>]
  ELSE IF json_loads(repair_json(data)).ok
  THEN [ok |-> TRUE, value |-> json_loads(repair_json(data)).value,
        trace |-> <<"strict", "relaxed", "repair">>]
  ELSE [ok |-> TRUE, value |-> NoArgs, trace |-> <<"strict", "relaxed", "repair">>]

\* fix_json: the first strategy that succeeds on the original text decides;
\* trace lists the strategies that were invoked; ok = FALSE is the ValueError
fix_json(data) ==
  IF json_loads(data).ok
  THEN [ok |-> TRUE, value |-> json_loads(data).value, trace |-> <<"strict">>]
  ELSE IF json5_loads(data).ok
  THEN [ok |-> TRUE, value |-> json5_loads(data).value,
        trace |-> <<"strict", "relaxed">>]
  ELSE IF json_loads(repair_json(data)).ok
  THEN [ok |-> TRUE, value |-> json_loads(repair_json(data)).value,
        trace |-> <<"strict", "relaxed", "repair">>]
  ELSE [ok |-> FALSE, value |-> NoArgs, trace |-> <<"strict", "relaxed", "repair">>]

\* ------------------------------------------------------------------------
\* Remote side: discovery responses
\* ------------------------------------------------------------------------

\* a tool record of a discovery response (t.function of the code)
RemoteTools == [name : Names, description : Descs, parameters : Params]

\* the list_result.tools a list_tools request can be answered with
ListResults == UNION {[1..n -> RemoteTools] : n \in 0..MaxTools}

\* fn.parameters.model_json_schema()
model_json_schema(parameters) == [type |-> "object", of |-> parameters]

\* the argument texts the caller passes to mcp_call_tool in this model: a
\* strictly valid one, one with a JSON5 extension, one only the heuristic
\* repair recovers, one nothing recovers
CallTexts ==
  {[val |-> "v1", defects |-> {}],
   [val |-> "v2", defects |-> {"trailing_comma"}],
   [val |-> "v1", defects |-> {"unclosed_bracket"}],
   [val |-> "v2", defects |-> {"no_structure"}]}

\* no schema stored under a name
Absent == [name |-> NoTool]

\* the names the schema cache holds a schema for
Keys(cache) == {n \in Names : cache[n] # Absent}

\* mutant: the gate only asks whether any schema at all has been loaded
gate_blocked_if_empty(cache, tool_name) == Keys(cache) = {}

\* line 214: tool_name not in self._schema_cache
gate_blocked(cache, tool_name) == tool_name \notin Keys(cache)

\* _list: each tool record projected to name and description
cleaned(list_result) ==
  [i \in 1..Len(list_result) |->
     [name |-> list_result[i].name, description |-> list_result[i].description]]

\* the schema _get_schema builds from a tool record
schema_of(fn) ==
  [name |-> fn.name, description |-> fn.description,
   parameters |-> model_json_schema(fn.parameters)]

\* positions of the tool records the linear scan accepts
matches(list_result, tool_name) ==
  {i \in 1..Len(list_result) : list_result[i].name = tool_name}

\* the first of a non-empty set of positions
first(S) == CHOOSE i \in S : \A j \in S : i <= j

\* {"error": f"Tool '{tool_name}' introuvable."}
not_found(tool_name) == [error |-> tool_name]

\* mutant: the name test of the scan is missing, the first tool record wins
get_schema_first_tool(cache, tool_name, list_result) ==
  IF Len(list_result) > 0
  THEN [cache |-> [cache EXCEPT ![tool_name] = schema_of(list_result[1])],
        result |-> [kind |-> "ok", value |-> schema_of(list_result[1])]]
  ELSE [cache |-> cache, result |-> [kind |-> "ok", value |-> not_found(tool_name)]]

\* mutant: a lookup that finds nothing drops the entry of the name
get_schema_evicts(cache, tool_name, list_result) ==
  IF matches(list_result, tool_name) # {}
  THEN LET schema == schema_of(list_result[first(matches(list_result, tool_name))])
       IN [cache |-> [cache EXCEPT ![tool_name] = schema],
           result |-> [kind |-> "ok", value |-> schema]]
  ELSE [cache |-> [cache EXCEPT ![tool_name] = Absent],
        result |-> [kind |-> "ok", value |-> not_found(tool_name)]]

\* mutant: an entry the cache already holds is kept and returned (setdefault)
get_schema_keeps_first(cache, tool_name, list_result) ==
  IF matches(list_result, tool_name) # {}
  THEN LET schema == IF cache[tool_name] # Absent
                     THEN cache[tool_name]
                     ELSE schema_of(list_result[first(matches(list_result, tool_name))])
       IN [cache |-> [cache EXCEPT ![tool_name] = schema],
           result |-> [kind |-> "ok", value |-> schema]]
  ELSE [cache |-> cache, result |-> [kind |-> "ok", value |-> not_found(tool_name)]]

\* _get_schema after the discovery response: the cache it leaves and its result
get_schema(cache, tool_name, list_result) ==
  LET hit == matches(list_result, tool_name)
      schema == schema_of(list_result[first(hit)])
  IN IF hit # {}
     THEN [cache |-> [cache EXCEPT ![tool_name] = schema],
           result |-> [kind |-> "ok", value |-> schema]]
     ELSE [cache |-> cache, result |-> [kind |-> "ok", value |-> not_found(tool_name)]]

\* mutant: _call forgets to pass the repaired arguments on
request_of_no_arguments(op, tool_name, args) ==
  IF op = "call"
  THEN [method |-> "call_tool", name |-> tool_name, arguments |-> NoArgs]
  ELSE [method |-> "list_tools", name |-> NoTool, arguments |-> NoArgs]

\* the one remote request the coroutine of an operation issues
request_of(op, tool_name, args) ==
  IF op = "call"
  THEN [method |-> "call_tool", name |-> tool_name, arguments |-> args]
  ELSE [method |-> "list_tools", name |-> NoTool, arguments |-> NoArgs]

\* call_result.model_dump(mode="json")
model_dump(call_result) == [dump |-> call_result]

\* A response records the operation it answers (op), the tool its text
\* names (tool_name) and the text itself (kind, body).

\* the gate-blocked guidance text of mcp_call_tool
guidance(tool_name) ==
  [op |-> "call", tool_name |-> tool_name, kind |-> "gate_blocked", body |-> NoBody]

\* the parse-error text of mcp_call_tool
parse_error(tool_name) ==
  [op |-> "call", tool_name |-> tool_name, kind |-> "parse_error", body |-> NoBody]

\* the text of the except branch of a public operation; only the text of
\* mcp_call_tool names the tool
error_text(op, tool_name) ==
  [op |-> op, tool_name |-> IF op = "call" THEN tool_name ELSE NoTool,
   kind |-> "error", body |-> NoBody]

\* json.dumps(result, indent=2, ensure_ascii=False)
json_text(op, tool_name, value) ==
  [op |-> op, tool_name |-> IF op = "call" THEN tool_name ELSE NoTool,
   kind |-> "json", body |-> value]

\* mutant: the operation has no except branch, the exception reaches the caller
returned_unguarded(op, tool_name, result, dumps_ok) ==
  IF result.kind = "ok" /\ dumps_ok
  THEN json_text(op, tool_name, result.value)
  ELSE [op |-> op, tool_name |-> tool_name, kind |-> "raised", body |-> NoBody]

\* try/except of a public operation around run_async_blocking and json.dumps:
\* result is what the coroutine ended with, dumps_ok whether json.dumps succeeds
returned(op, tool_name, result, dumps_ok) ==
  IF result.kind = "ok" /\ dumps_ok
  THEN json_text(op, tool_name, result.value)
  ELSE error_text(op, tool_name)

\* ------------------------------------------------------------------------
\* State
\* ------------------------------------------------------------------------

VARIABLES
  in_loop,        \* the caller runs inside a running event loop
  _tools_list,    \* Tools._tools_list: the known-tools snapshot
  _schema_cache,  \* Tools._schema_cache: tool name -> schema
  tasks,          \* bag of the coroutines of public operations not yet ended
  open_sessions,  \* transports/sessions entered and not yet exited
  last,           \* the value the most recent public operation returned
  found,          \* names t some mcp_get_tool_schema(t) matched in a response
  listed,         \* mcp_list_tools has been called
  fj_data,        \* input of fix_json when it is exercised on its own
  fj_out          \* its output

vars == <<in_loop, _tools_list, _schema_cache, tasks, open_sessions, last,
          found, listed, fj_data, fj_out>>

NoText == [val |-> "-", defects |-> {}]

NoOut == [ok |-> FALSE, value |-> NoArgs, trace |-> <<>>]

NoResponse == [op |-> "none", tool_name |-> NoTool, kind |-> "none", body |-> NoBody]

\* Tools.__init__
Init ==
  /\ in_loop \in BOOLEAN
  /\ _tools_list = <<>>
  /\ _schema_cache = [n \in Names |-> Absent]
  /\ tasks = EmptyBag
  /\ open_sessions = 0
  /\ last = NoResponse
  /\ found = {}
  /\ listed = FALSE
  /\ fj_data = NoText
  /\ fj_out = NoOut

\* ------------------------------------------------------------------------
\* run_async_blocking and the coroutine of an operation
\* ------------------------------------------------------------------------

\* mutant: the coroutine skips the async with blocks and hands its body a
\* session it assumes to exist already
new_task_reusing(op, tool_name, args) ==
  [op |-> op, tool_name |-> tool_name, args |-> args, pc |-> "connected",
   sent |-> NoReq]

\* the coroutine _run() of an operation, created and not yet started
new_task(op, tool_name, args) ==
  [op |-> op, tool_name |-> tool_name, args |-> args, pc |-> "scheduled",
   sent |-> NoReq]

\* the coroutines in flight once the coroutine task has ended
without(task) == tasks (-) SetToBag({task})

\* the coroutines in flight once the coroutine task has moved on to next
moved(task, next) == without(task) (+) SetToBag({next})

\* the caller can start a public operation: with no running loop it is blocked
\* inside asyncio.run until the coroutine of its operation has ended
caller_free == in_loop \/ tasks = EmptyBag

\* run_async_blocking(_run()) inside the try of a public operation.
\* No running loop: asyncio.run, the caller waits for the coroutine.
\* Running loop: the coroutine is scheduled with ensure_future, then
\* loop.run_until_complete raises RuntimeError, which the except branch of
\* the operation turns into its error text; the scheduled coroutine stays.
run_async_blocking(op, tool_name, args) ==
  /\ BagCardinality(tasks) < MaxTasks
  /\ tasks' = tasks (+) SetToBag({new_task(op, tool_name, args)})
  /\ last' = IF in_loop THEN error_text(op, tool_name) ELSE last

\* json.dumps can only fail on a value that holds data of the remote side's
\* own types (a parameter schema, a call result); the not-found value and the
\* {name, description} projection hold nothing but strings
serialization_may_fail(value) == DOMAIN value \cap {"error", "tools"} = {}

\* the coroutine task ends with result: with no running loop the
\* operation returns to its caller, in a running loop nobody reads the result
finish(task, result) ==
  /\ tasks' = without(task)
  /\ IF in_loop
     THEN last' = last
     ELSE \E dumps_ok \in BOOLEAN :
            /\ dumps_ok \/ (result.kind = "ok" /\ serialization_may_fail(result.value))
            /\ last' = returned(task.op, task.tool_name, result, dumps_ok)

\* ------------------------------------------------------------------------
\* Public operations
\* ------------------------------------------------------------------------

mcp_list_tools ==
  /\ caller_free
  /\ run_async_blocking("list", NoTool, NoArgs)
  /\ listed' = TRUE
  /\ UNCHANGED <<in_loop, _tools_list, _schema_cache, open_sessions, found,
                 fj_data, fj_out>>

mcp_get_tool_schema(tool_name) ==
  /\ caller_free
  /\ run_async_blocking("schema", tool_name, NoArgs)
  /\ UNCHANGED <<in_loop, _tools_list, _schema_cache, open_sessions, found,
                 listed, fj_data, fj_out>>

\* mutant: the arguments are repaired before the gate is consulted
mcp_call_tool_repair_first(tool_name, arguments_json) ==
  /\ caller_free
  /\ IF ~fix_json(arguments_json).ok
     THEN /\ last' = parse_error(tool_name)
          /\ tasks' = tasks
     ELSE IF gate_blocked(_schema_cache, tool_name)
     THEN /\ last' = guidance(tool_name)
          /\ tasks' = tasks
     ELSE run_async_blocking("call", tool_name, fix_json(arguments_json).value)
  /\ UNCHANGED <<in_loop, _tools_list, _schema_cache, open_sessions, found,
                 listed, fj_data, fj_out>>

mcp_call_tool(tool_name, arguments_json) ==
  /\ caller_free
  /\ IF gate_blocked(_schema_cache, tool_name)
     THEN /\ last' = guidance(tool_name)
          /\ tasks' = tasks
     ELSE IF ~fix_json(arguments_json).ok
     THEN /\ last' = parse_error(tool_name)
          /\ tasks' = tasks
     ELSE run_async_blocking("call", tool_name, fix_json(arguments_json).value)
  /\ UNCHANGED <<in_loop, _tools_list, _schema_cache, open_sessions, found,
                 listed, fj_data, fj_out>>

\* ------------------------------------------------------------------------
\* _with_session and the bodies _list, _get_schema, _call, step by step
\* ------------------------------------------------------------------------

\* _with_session is left: both async with blocks exit and the coroutine
\* task ends with result.  The exit is taken in the same step as the
\* statement that ends the body, since nothing of the Tools object is
\* touched in between.
\* mutant: the session is kept open when the coroutine ends
leave_keeps_open(task, result) ==
  /\ open_sessions' = open_sessions
  /\ finish(task, result)

leave(task, result) ==
  /\ open_sessions' = open_sessions - 1
  /\ finish(task, result)

\* async with streamablehttp_client(...), async with ClientSession(...)
Connect(task) ==
  /\ task.pc = "scheduled"
  /\ \/ /\ tasks' = moved(task, [task EXCEPT !.pc = "connected"])
        /\ open_sessions' = open_sessions + 1
        /\ last' = last
     \/ /\ finish(task, Exc)
        /\ open_sessions' = open_sessions
  /\ UNCHANGED <<in_loop, _tools_list, _schema_cache, found, listed, fj_data, fj_out>>

\* await session.initialize() returns and the body sends its one request,
\* session.list_tools() or session.call_tool(...), before it suspends again;
\* or the handshake fails
Initialize(task) ==
  /\ task.pc = "connected"
  /\ \/ /\ tasks' = moved(task, [task EXCEPT !.pc = "awaiting",
                                             !.sent = request_of(task.op, task.tool_name,
                                                                 task.args)])
        /\ UNCHANGED <<open_sessions, last>>
     \/ leave(task, Exc)
  /\ UNCHANGED <<in_loop, _tools_list, _schema_cache, found, listed, fj_data, fj_out>>

\* mutant: a failed request is retried on the same session
RequestFails_retries(task) ==
  /\ task.pc = "awaiting"
  /\ tasks' = moved(task, [task EXCEPT !.pc = "connected"])
  /\ UNCHANGED <<in_loop, _tools_list, _schema_cache, open_sessions, last, found,
                 listed, fj_data, fj_out>>

\* the awaited request raises (transport or protocol failure, bad response)
RequestFails(task) ==
  /\ task.pc = "awaiting"
  /\ leave(task, Exc)
  /\ UNCHANGED <<in_loop, _tools_list, _schema_cache, found, listed, fj_data, fj_out>>

\* mutant: a fresh listing throws the cached schemas away
ListResponse_resets_cache(task, list_result) ==
  /\ task.pc = "awaiting"
  /\ task.op = "list"
  /\ _tools_list' = cleaned(list_result)
  /\ _schema_cache' = [n \in Names |-> Absent]
  /\ leave(task, [kind |-> "ok", value |-> [tools |-> cleaned(list_result)]])
  /\ UNCHANGED <<in_loop, found, listed, fj_data, fj_out>>

\* _list continues with the discovery response
ListResponse(task, list_result) ==
  /\ task.pc = "awaiting"
  /\ task.op = "list"
  /\ _tools_list' = cleaned(list_result)
  /\ leave(task, [kind |-> "ok", value |-> [tools |-> cleaned(list_result)]])
  /\ UNCHANGED <<in_loop, _schema_cache, found, listed, fj_data, fj_out>>

\* mutant: the lookup trusts the list phase: a name the known-tools snapshot
\* does not hold is reported as not found without scanning the response
SchemaResponse_uses_snapshot(task, list_result) ==
  /\ task.pc = "awaiting"
  /\ task.op = "schema"
  /\ LET known == \E i \in 1..Len(_tools_list) : _tools_list[i].name = task.tool_name
         r == get_schema(_schema_cache, task.tool_name,
                         IF known THEN list_result ELSE <<>>)
     IN /\ _schema_cache' = r.cache
        /\ leave(task, r.result)
        /\ found' = IF known /\ matches(list_result, task.tool_name) # {}
                    THEN found \cup {task.tool_name}
                    ELSE found
  /\ UNCHANGED <<in_loop, _tools_list, listed, fj_data, fj_out>>

\* _get_schema continues with the discovery response
SchemaResponse(task, list_result) ==
  /\ task.pc = "awaiting"
  /\ task.op = "schema"
  /\ LET r == get_schema(_schema_cache, task.tool_name, list_result)
     IN /\ _schema_cache' = r.cache
        /\ leave(task, r.result)
  /\ found' = IF matches(list_result, task.tool_name) # {}
              THEN found \cup {task.tool_name}
              ELSE found
  /\ UNCHANGED <<in_loop, _tools_list, listed, fj_data, fj_out>>

\* _call continues with the result of the remote call
CallResponse(task, call_result) ==
  /\ task.pc = "awaiting"
  /\ task.op = "call"
  /\ leave(task, [kind |-> "ok", value |-> model_dump(call_result)])
  /\ UNCHANGED <<in_loop, _tools_list, _schema_cache, found, listed, fj_data, fj_out>>

Next ==
  \/ mcp_list_tools
  \/ \E tool_name \in Names : mcp_get_tool_schema(tool_name)
  \/ \E tool_name \in Names, arguments_json \in CallTexts :
       mcp_call_tool(tool_name, arguments_json)
  \/ \E task \in BagToSet(tasks) : Connect(task)
  \/ \E task \in BagToSet(tasks) : Initialize(task)
  \/ \E task \in BagToSet(tasks), list_result \in ListResults : ListResponse(task, list_result)
  \/ \E task \in BagToSet(tasks), list_result \in ListResults : SchemaResponse(task, list_result)
  \/ \E task \in BagToSet(tasks), call_result \in CallResults : CallResponse(task, call_result)
  \/ \E task \in BagToSet(tasks) : RequestFails(task)

Spec == Init /\ [][Next]_vars

\* ------------------------------------------------------------------------
\* fix_json exercised on its own, on every text
\* ------------------------------------------------------------------------

InitRepair ==
  /\ in_loop = FALSE
  /\ _tools_list = <<>>
  /\ _schema_cache = [n \in Names |-> Absent]
  /\ tasks = EmptyBag
  /\ open_sessions = 0
  /\ last = NoResponse
  /\ found = {}
  /\ listed = FALSE
  /\ fj_data \in JsonTexts
  /\ fj_out = NoOut

ApplyFixJson ==
  /\ fj_out = NoOut
  /\ fj_out' = fix_json(fj_data)
  /\ UNCHANGED <<in_loop, _tools_list, _schema_cache, tasks, open_sessions, last,
                 found, listed, fj_data>>

NextText ==
  /\ fj_out # NoOut
  /\ fj_data' \in JsonTexts
  /\ fj_out' = NoOut
  /\ UNCHANGED <<in_loop, _tools_list, _schema_cache, tasks, open_sessions, last,
                 found, listed>>

NextRepair == ApplyFixJson \/ NextText

SpecRepair == InitRepair /\ [][NextRepair]_vars

\* ------------------------------------------------------------------------
\* Properties
\* ------------------------------------------------------------------------

\* the coroutines in flight
Running == BagToSet(tasks)

\* the coroutine task ends in the step
Ends(task) == tasks' = without(task)

\* the coroutine task takes a step, which does not end it, and becomes next
Moves(task, next) == next # task /\ tasks' = moved(task, next)

\* no strategy of the repair pipeline parses the text
AllStrategiesFail(data) ==
  \A k \in 1..Len(Strategies) : ~Attempt(Strategies[k], data).ok

\* the step creates the coroutine of an operation op on tool t with args
Creates(op, t, args) == tasks' = tasks (+) SetToBag({new_task(op, t, args)})

\* the arguments a coroutine can be created with
AnyArgs == {NoArgs} \cup {[json |-> v] : v \in Values}

\* the step returns a response of an operation op on tool t to the caller
Returns(op, t) == last' # last /\ last'.op = op /\ last'.tool_name = t

\* C1: a mcp_call_tool(t, ...) invoked when no earlier mcp_get_tool_schema(t)
\* has found t returns the gate-blocked guidance text for t, and the
\* invocation opens no session and issues no remote request: it creates no
\* coroutine and moves none.
C1_GateBlocksUnfetched ==
  [][\A t \in Names \ found :
       /\ \A args \in AnyArgs : ~Creates("call", t, args)
       /\ Returns("call", t)
            => /\ last' = guidance(t)
               /\ tasks' = tasks
               /\ open_sessions' = open_sessions]_vars

\* a call of a tool never found was answered with the guidance text while
\* the schema of another tool was known
C1_Witness ==
  \E t \in Names : last = guidance(t) /\ t \notin found /\ found # {}

\* the call_tool request for tool t with arguments args
call_request(t, args) == [method |-> "call_tool", name |-> t, arguments |-> args]

\* C2 as stated: once mcp_get_tool_schema(t) has succeeded, every later
\* mcp_call_tool(t, args) with parseable args issues the call_tool request
\* for t with the repaired arguments: no coroutine of a call ends without
\* having issued it.
C2_Original ==
  [][\A task \in Running :
       (task.op = "call" /\ Ends(task))
         => task.sent = call_request(task.tool_name, task.args)]_vars

\* C2 (amended): once mcp_get_tool_schema(t) has found t, every later
\* mcp_call_tool(t, args) with parseable args passes the gate and starts the
\* dispatch with the repaired arguments; its coroutine issues no request
\* before its session is initialized, and when the handshake completes it
\* issues exactly the call_tool request for t with the repaired arguments.
C2_DispatchAfterFetch ==
  [][/\ \A t \in found : Returns("call", t) => last'.kind # "gate_blocked"
     /\ \A t \in found :
          (Returns("call", t) \/ \E args \in AnyArgs : Creates("call", t, args))
            => \A x \in CallTexts :
                 (~AllStrategiesFail(x) /\ mcp_call_tool(t, x))
                   => Creates("call", t, [json |-> x.val])
     /\ \A task \in Running :
          task.op = "call"
            => /\ (task.pc = "awaiting") = (task.sent # NoReq)
               /\ task.sent \in {NoReq, call_request(task.tool_name, task.args)}
               /\ task.pc = "connected"
                    => \A next \in BagToSet(tasks') :
                         Moves(task, next)
                           => next.sent = call_request(task.tool_name, task.args)]_vars

\* a call passed the gate with repaired arguments and its request is out
C2_Witness ==
  \E task \in Running :
    /\ task.op = "call"
    /\ task.pc = "awaiting"
    /\ task.tool_name \in found
    /\ task.sent = call_request(task.tool_name, [json |-> "v2"])

\* C3: a mcp_get_tool_schema(t) whose discovery response contains no tool
\* named t returns the structured {error: ...} value and leaves the schema
\* cache unchanged, and a name no fetch has found stays gate-blocked.
C3_Claim ==
  /\ [][\A task \in Running :
          (/\ task.op = "schema"
           /\ Ends(task)
           /\ \E list_result \in ListResults :
                /\ matches(list_result, task.tool_name) = {}
                /\ SchemaResponse(task, list_result))
            => /\ last' = json_text("schema", task.tool_name,
                                    not_found(task.tool_name))
               /\ _schema_cache' = _schema_cache]_vars
  /\ [](\A t \in Names \ found : gate_blocked(_schema_cache, t))

\* C4: the schema cache is empty at construction; each key t of it was
\* inserted by a mcp_get_tool_schema(t) whose discovery response contained a
\* tool named t, and the entry's name field is t; no other step adds a key.
C4_CacheOnlyFromMatchingFetch ==
  /\ Keys(_schema_cache) = {}
  /\ [](\A t \in Keys(_schema_cache) : t \in found /\ _schema_cache[t].name = t)
  /\ [][\A t \in Keys(_schema_cache') \ Keys(_schema_cache) :
          \E task \in Running :
            /\ task.op = "schema"
            /\ task.tool_name = t
            /\ task.pc = "awaiting"
            /\ Ends(task)
            /\ \E fn \in RemoteTools :
                 fn.name = t /\ _schema_cache'[t] = schema_of(fn)]_vars

\* both names were inserted while mcp_list_tools had been called as well
C4_Witness ==
  /\ Keys(_schema_cache) = Names
  /\ listed
  /\ last.kind = "json"
  /\ last.op = "schema"

\* C5: a name that is in the schema cache stays in it in every later state.
C5_CacheMonotonic ==
  [][\A t \in Keys(_schema_cache) : t \in Keys(_schema_cache')]_vars

\* a fetch for a cached name found nothing, and the name is still cached
C5_Witness ==
  \E t \in Keys(_schema_cache) : last = json_text("schema", t, not_found(t))

\* C6: when mcp_call_tool(t, text) passes the gate but every repair strategy
\* fails on text, it returns the parse-error response and the invocation
\* creates no coroutine: no session is opened and no request is issued.
C6_UnparseableNeverDispatched ==
  [][\A t \in Keys(_schema_cache) :
       (Returns("call", t) \/ \E args \in AnyArgs : Creates("call", t, args))
         => \A x \in CallTexts :
              (AllStrategiesFail(x) /\ mcp_call_tool(t, x))
                => /\ last' = parse_error(t)
                   /\ tasks' = tasks
                   /\ open_sessions' = open_sessions]_vars

\* a call that passed the gate was answered with the parse-error text
C6_Witness ==
  \E t \in Keys(_schema_cache) : last = parse_error(t) /\ tasks = EmptyBag

\* C7: no fault escapes a public operation: every response is a text, and a
\* coroutine that ends, with its result or with an exception raised at any
\* step, makes its operation return a JSON text or its error text.
C7_NoFaultEscapes ==
  /\ [](last.kind \in {"none", "json", "gate_blocked", "parse_error", "error"})
  /\ [][\A task \in Running :
          (Ends(task) /\ ~in_loop)
            => /\ last'.op = task.op
               /\ task.op = "call" => last'.tool_name = task.tool_name
               /\ last'.kind \in {"json", "error"}
               /\ task.pc # "awaiting" => last'.kind = "error"]_vars

\* a call that had passed the gate failed and returned its error text
C7_Witness ==
  /\ ~in_loop
  /\ last = error_text("call", "a")
  /\ tasks = EmptyBag
  /\ "a" \in Keys(_schema_cache)

\* C8: fix_json tries strict, relaxed, repair in this order, each on the
\* original text; it returns the result of the first strategy that succeeds
\* and invokes no strategy after a success.
C8_RepairEscalation ==
  fj_out # NoOut
    => LET n == Len(fj_out.trace)
       IN /\ n \in 1..Len(Strategies)
          /\ \A k \in 1..n : fj_out.trace[k] = Strategies[k]
          /\ \A k \in 1..(n - 1) : ~Attempt(Strategies[k], fj_data).ok
          /\ fj_out.ok = Attempt(Strategies[n], fj_data).ok
          /\ fj_out.value = Attempt(Strategies[n], fj_data).value
          /\ ~fj_out.ok => n = Len(Strategies)

\* strict failed on a text with a trailing comma, relaxed parsed it, and the
\* heuristic repair was not invoked
C8_Witness ==
  /\ fj_data.defects = {"trailing_comma"}
  /\ fj_out.ok
  /\ fj_out.trace = <<"strict", "relaxed">>

\* C9: for every text the strict parser accepts, fix_json returns a value
\* equal to the strict parse of the text.
C9_StrictTextUnchanged ==
  (fj_out # NoOut /\ json_loads(fj_data).ok)
    => fj_out.ok /\ fj_out.value = json_loads(fj_data).value

\* fix_json was applied to a strictly valid text
C9_Witness ==
  fj_out # NoOut /\ json_loads(fj_data).ok /\ fj_out.value = [json |-> "v2"]

\* the public operations
Ops == {"list", "schema", "call"}

\* C11: the known-tools snapshot changes only in a step in which a
\* mcp_list_tools returns its JSON text, and then it equals the {name,
\* description} projection that text holds, whatever it held before; a
\* mcp_list_tools that returned its error text changes nothing, neither in
\* the step of its return nor through its coroutine afterwards.
C11_Claim ==
  [][/\ _tools_list' # _tools_list
          => last' = json_text("list", NoTool, [tools |-> _tools_list'])
     /\ \A task \in Running :
          (task.op = "list" /\ Ends(task) /\ ~in_loop /\ last'.kind = "json")
            => /\ last'.body = [tools |-> _tools_list']
               /\ \E list_result \in ListResults :
                    _tools_list' = cleaned(list_result)]_vars

\* C12: at no time are two sessions to the server open or being created:
\* operations in flight at the same time share one connection and handshake.
C12_Claim == open_sessions <= 1

\* the coroutines that are inside the async with blocks of _with_session
InSession == {task \in Running : task.pc # "scheduled"}

\* the number of coroutines in flight that are inside _with_session
Holders == BagCardinality([task \in InSession |-> tasks[task]])

\* C13 as stated: sessions are reused: once an operation has succeeded, and
\* so has created and initialized the session, no later step opens another
\* connection.
C13_Original ==
  [][(~in_loop /\ last.kind = "json") => open_sessions' <= open_sessions]_vars

\* C13 (amended): no session is reused across operations: every operation
\* that reaches dispatch opens its own connection and session and performs
\* its own handshake before its one request, and closes them when it ends:
\* starting an operation opens nothing, every step of a coroutine is its
\* connect (one more session), its handshake followed by its request, or its
\* end (its session closed); every open session belongs to exactly one
\* coroutine in flight, and between the operations of a sequential run no
\* session exists.
C13_SessionPerOperation ==
  /\ [](open_sessions = Holders)
  /\ []((~in_loop /\ caller_free) => open_sessions = 0)
  /\ [][/\ BagCardinality(tasks') > BagCardinality(tasks)
             => open_sessions' = open_sessions
        /\ \A task \in Running :
             CopiesIn(task, tasks') < CopiesIn(task, tasks)
               => \/ /\ Ends(task)
                     /\ open_sessions' =
                          open_sessions - (IF task.pc = "scheduled" THEN 0 ELSE 1)
                  \/ \E next \in BagToSet(tasks') :
                       /\ CopiesIn(next, tasks') > CopiesIn(next, tasks)
                       /\ Moves(task, next)
                       /\ \/ /\ task.pc = "scheduled"
                             /\ next.pc = "connected"
                             /\ next.sent = NoReq
                             /\ open_sessions' = open_sessions + 1
                          \/ /\ task.pc = "connected"
                             /\ next.pc = "awaiting"
                             /\ next.sent # NoReq
                             /\ open_sessions' = open_sessions]_vars

\* after an operation has succeeded, the next operation of the sequential
\* run has opened a connection of its own
C13_Witness ==
  /\ ~in_loop
  /\ last.kind = "json"
  /\ open_sessions = 1
  /\ \E task \in Running : task.pc = "connected"

\* C14: an invocation of a public operation issues at most one remote
\* request besides the handshake: list_tools for mcp_list_tools and
\* mcp_get_tool_schema, call_tool for mcp_call_tool; a coroutine whose request
\* is out takes no further step but its end, so nothing is sent a second time
\* after a failure either.
C14_AtMostOneRequest ==
  /\ [](\A task \in Running :
          /\ task.sent.method
               \in {"none", IF task.op = "call" THEN "call_tool" ELSE "list_tools"}
          /\ task.sent # NoReq => task.pc = "awaiting")
  /\ [][\A task \in Running :
          task.sent # NoReq
            => \A next \in BagToSet(tasks') : ~Moves(task, next)]_vars

\* the one list_tools request of a schema lookup is out while the schema of
\* its tool is cached already: the lookup sends it again, and only once
C14_Witness ==
  \E task \in Running :
    /\ task.op = "schema"
    /\ task.sent.method = "list_tools"
    /\ task.tool_name \in Keys(_schema_cache)

\* C15: the gate check precedes argument repair: a mcp_call_tool(t, text)
\* for a tool name t absent from the schema cache returns the guidance text
\* for t whatever text is, also when no repair strategy parses it, and
\* creates no coroutine; the parse-error response is only returned for a
\* name that is in the cache.
C15_GatePrecedesRepair ==
  [][\A t \in Names :
       Returns("call", t)
         => /\ last'.kind = "parse_error" => t \in Keys(_schema_cache)
            /\ t \notin Keys(_schema_cache)
                 => \A x \in CallTexts :
                      mcp_call_tool(t, x)
                        => /\ last' = guidance(t)
                           /\ tasks' = tasks
                           /\ AllStrategiesFail(x) => last'.kind # "parse_error"]_vars

\* a call of a tool whose schema is not cached was answered with the
\* guidance text after the tools had been listed and while the schema of
\* another tool was cached
C15_Witness ==
  \E t \in Names \ Keys(_schema_cache) :
    /\ last = guidance(t)
    /\ listed
    /\ Keys(_schema_cache) # {}
    /\ tasks = EmptyBag

\* for each tool name and discovery response, the position of the first tool
\* record of that name in the response, 0 when it holds none
first_match ==
  [t \in Names |->
     [list_result \in ListResults |->
        IF \E i \in 1..Len(list_result) : list_result[i].name = t
        THEN CHOOSE i \in 1..Len(list_result) :
               /\ list_result[i].name = t
               /\ \A j \in 1..(i - 1) : list_result[j].name # t
        ELSE 0]]

\* the step leaves the snapshot alone and its outcome for a lookup of t is
\* the one the scan of list_result gives: t found and cached with the schema
\* of the first tool record named t, or nothing found and nothing cached
ScanDecides(t, list_result) ==
  LET at == first_match[t][list_result]
  IN /\ _tools_list' = _tools_list
     /\ IF at # 0
        THEN /\ t \in found'
             /\ _schema_cache'[t] = schema_of(list_result[at])
             /\ (~in_loop /\ last'.kind = "json")
                  => last'.body = schema_of(list_result[at])
        ELSE /\ found' = found
             /\ _schema_cache' = _schema_cache
             /\ ~in_loop => last'.body = not_found(t)

\* C16: a schema lookup is independent of the known-tools snapshot: whether
\* it finds its tool is decided by the discovery response it receives itself
\* (found exactly when the response holds a tool of that name, whatever the
\* snapshot holds), and the step leaves the snapshot unchanged: in no state
\* can the step of a lookup that receives a response end otherwise.
C16_SchemaIndependentOfSnapshot ==
  \A task \in Running :
    (task.op = "schema" /\ task.pc = "awaiting")
      => \A list_result \in ListResults :
           ~ENABLED (/\ SchemaResponse(task, list_result)
                     /\ ~ScanDecides(task.tool_name, list_result))

\* a lookup reported its tool as not found although the snapshot of the list
\* phase holds a tool of that name
C16_Witness ==
  /\ ~in_loop
  /\ \E t \in Names :
       /\ last = json_text("schema", t, not_found(t))
       /\ \E i \in 1..Len(_tools_list) : _tools_list[i].name = t

\* the step sets the entry of t to the schema of the first tool record named
\* t in list_result, whatever the entry was, and touches no other entry
Replaces(t, list_result) ==
  /\ _schema_cache'[t] = schema_of(list_result[first_match[t][list_result]])
  /\ \A u \in Names \ {t} : _schema_cache'[u] = _schema_cache[u]

\* C17: the schema cache holds the last-fetched schema: when a lookup has
\* returned a schema, the entry of its tool equals it; and in no state can
\* the step of a lookup of t that receives a response holding t do anything
\* but set the entry of t to the schema built from that response, replacing
\* an earlier entry, so of overlapping lookups the one whose response arrives
\* last decides.
C17_CacheHoldsLastFetched ==
  /\ (~in_loop /\ last.op = "schema" /\ last.kind = "json"
        /\ "error" \notin DOMAIN last.body)
       => _schema_cache[last.body.name] = last.body
  /\ \A task \in Running :
       (task.op = "schema" /\ task.pc = "awaiting")
         => \A list_result \in ListResults :
              first_match[task.tool_name][list_result] # 0
                => ~ENABLED (/\ SchemaResponse(task, list_result)
                             /\ ~Replaces(task.tool_name, list_result))

\* of two lookups of the same tool that overlap, one has stored its schema
\* and the other has its request out
C17_Witness ==
  /\ in_loop
  /\ \E task \in Running :
       /\ task.op = "schema"
       /\ task.pc = "awaiting"
       /\ _schema_cache[task.tool_name].name = task.tool_name
       /\ _schema_cache[task.tool_name].parameters = model_json_schema("p2")

\* C18: run_async_blocking runs the coroutine to completion before it
\* returns, with and without a running event loop: a step in which a public
\* operation returns its response leaves no coroutine in flight, so nothing
\* of the operation (request, cache write) happens after its return.
C18_Claim == [][last' # last => tasks' = EmptyBag]_vars

\* C19: every session an operation opens is closed when its coroutine ends,
\* with its result or with a failure at any step: the end of a coroutine that
\* is inside _with_session closes one session, the end of one that failed to
\* connect closes none, and when no coroutine is in flight no session is open.
C19_SessionsClosed ==
  /\ [](tasks = EmptyBag => open_sessions = 0)
  /\ [](open_sessions >= 0 /\ open_sessions <= BagCardinality(tasks))
  /\ [][\A task \in Running :
          Ends(task)
            => /\ task \in InSession => open_sessions' = open_sessions - 1
               /\ task.pc = "scheduled" => open_sessions' = open_sessions
               /\ open_sessions' = Holders']_vars

\* a listing has received its response inside a session of its own, and with
\* no coroutine left in flight no session is open
C19_Witness ==
  /\ _tools_list # <<>>
  /\ tasks = EmptyBag
  /\ open_sessions = 0

\* the step belongs to the coroutine of an operation op
StepOf(op) ==
  \E task \in Running :
    /\ task.op = op
    /\ Ends(task) \/ \E next \in BagToSet(tasks') : Moves(task, next)

\* C20: no step of a mcp_call_tool changes the schema cache or the
\* known-tools snapshot, whatever its outcome (guidance, parse error, result
\* of the dispatch, failure of the dispatch), and no step of a mcp_list_tools
\* changes the schema cache.
C20_CallAndListFrame ==
  [][/\ (\/ \E t \in Names : Returns("call", t)
         \/ \E t \in Names, args \in AnyArgs : Creates("call", t, args)
         \/ StepOf("call"))
          => /\ _schema_cache' = _schema_cache
             /\ _tools_list' = _tools_list
     /\ (\/ Returns("list", NoTool)
         \/ Creates("list", NoTool, NoArgs)
         \/ StepOf("list"))
          => _schema_cache' = _schema_cache]_vars

\* a dispatched call has returned its result while both schemas are cached
\* and the snapshot holds a tool
C20_Witness ==
  /\ ~in_loop
  /\ last = json_text("call", "a", model_dump("r1"))
  /\ Keys(_schema_cache) = Names
  /\ _tools_list # <<>>

====
